---- MODULE Spec2Model ----
(***************************************************************************)
(* Task queue engine: the scheduler (TaskScheduler.executeQueue and its    *)
(* helpers), the background invocations it spawns, its retry timers, and   *)
(* the control handlers that reach a running scheduler.                    *)
(*                                                                         *)
(* The scheduler is an async generator running on a single-threaded event  *)
(* loop: the code between two suspension points (await / yield) is one     *)
(* atomic action.  `pc` names the suspension point the generator is        *)
(* parked at.  Promise callbacks, timer callbacks and HTTP handlers run    *)
(* between those actions.                                                  *)
(***************************************************************************)
EXTENDS Integers, Sequences, FiniteSets, TLC

\* ------------------------------------------------------------------ bounds
NumTasks       == 2   \* tasks of the queue, ids 1..NumTasks in insertion order
MaxPriority    == 2   \* priorities are drawn from 1..MaxPriority
MaxConcurrency == 2   \* settings.maxConcurrency is drawn from 1..MaxConcurrency
MaxRetryCount  == 1   \* settings.retryCount is drawn from 0..MaxRetryCount
MaxRetryCalls  == 1   \* calls of the retry endpoint in one behaviour

Tasks     == 1..NumTasks
QueueId   == "q"
KnownAgent == "A1"
Agents    == {KnownAgent, "ghost"}

VARIABLES
  settings,          \* queue.settings: [maxConcurrency, retryCount]
  isRedisConnected,  \* TaskScheduler.isRedisConnected / isRedisAvailable()
  tasks,             \* queue.tasks of the queue object the scheduler holds
  qstatus,           \* queue.status of that object
  metrics,           \* queue.metrics of that object
  runningTasks,      \* TaskScheduler.runningTasks (keys)
  completedResults,  \* TaskScheduler.completedResults, in Map insertion order
  isPaused,
  isStopped,
  pc,                \* suspension point of executeQueue
  readyTasks,        \* local of executeQueue: result of getReadyTasks
  di,                \* index in readyTasks of the task being dispatched
  snap,              \* local: Array.from(completedResults.entries())
  dk,                \* index in snap of the entry being drained
  atYield,           \* the generator is parked at a yield (consumer owns control)
  inflight,          \* unsettled executeTaskAsync promises per task
  timers,            \* pending retry setTimeout callbacks per task
  activeSchedulers,  \* handlers' activeSchedulers map (keys)
  queues,            \* handlers' in-memory queues map (keys)
  store,             \* RedisQueueStore contents for the queue
  obs,               \* what an observer of the event stream has seen
  retryCalls,        \* number of retry-endpoint calls so far
  recovery,          \* recoverInterruptedQueues: its locals and what it has done
  redis,             \* RedisQueueStore key space as handleCreateQueue writes it
  http,              \* the create and get requests: body, responses
  second,            \* the scheduler of a second stream request for the queue
  starts             \* the POST /api/queue/{id}/start requests being handled

vars == <<settings, isRedisConnected, tasks, qstatus, metrics, runningTasks,
          completedResults, isPaused, isStopped, pc, readyTasks, di, snap, dk,
          atYield, inflight, timers, activeSchedulers, queues, store, obs,
          retryCalls, recovery, redis, http, second, starts>>

Range(f) == {f[i] : i \in DOMAIN f}

\* ------------------------------------------------------------ scheduler state
\* The mutable state gathered in one record, so that the sequential code of a
\* segment can be written as a composition of state transformers.
St ==
  [pc |-> pc, tasks |-> tasks, qstatus |-> qstatus, metrics |-> metrics,
   runningTasks |-> runningTasks, completedResults |-> completedResults,
   isPaused |-> isPaused, isStopped |-> isStopped, readyTasks |-> readyTasks,
   di |-> di, snap |-> snap, dk |-> dk, atYield |-> atYield,
   inflight |-> inflight, timers |-> timers,
   activeSchedulers |-> activeSchedulers, queues |-> queues, store |-> store,
   obs |-> obs]

Apply(s) ==
  /\ pc' = s.pc
  /\ tasks' = s.tasks
  /\ qstatus' = s.qstatus
  /\ metrics' = s.metrics
  /\ runningTasks' = s.runningTasks
  /\ completedResults' = s.completedResults
  /\ isPaused' = s.isPaused
  /\ isStopped' = s.isStopped
  /\ readyTasks' = s.readyTasks
  /\ di' = s.di
  /\ snap' = s.snap
  /\ dk' = s.dk
  /\ atYield' = s.atYield
  /\ inflight' = s.inflight
  /\ timers' = s.timers
  /\ activeSchedulers' = s.activeSchedulers
  /\ queues' = s.queues
  /\ store' = s.store
  /\ obs' = s.obs
  /\ UNCHANGED <<settings, starts, second, redis, http, isRedisConnected, retryCalls, recovery>>

\* ------------------------------------------------------------------- events
\* No event yet, on the stream or on the channel of the queue
NoEvent == <<"none", 0>>

\* `yield ev`: the event reaches the stream; the generator parks at the yield.
\* obs.stream is the last event written to the stream.
Emit(s, ev, t) ==
  LET o == [s.obs EXCEPT !.stream = <<ev, t>>] IN
  [s EXCEPT
     !.atYield = TRUE,
     !.obs =
        CASE ev = "task_started" ->
               [o EXCEPT !.started[t] = @ + 1, !.open[t] = TRUE,
                         !.lastPrio = s.tasks[t].priority]
          [] ev = "task_retrying" ->
               [o EXCEPT !.retrying[t] = @ + 1, !.open[t] = FALSE]
          [] ev = "task_completed" ->
               [o EXCEPT !.completed[t] = @ + 1, !.open[t] = FALSE]
          [] ev = "task_failed" ->
               [o EXCEPT !.failed[t] = @ + 1, !.open[t] = FALSE]
          [] ev \in {"queue_completed", "queue_failed"} ->
               [o EXCEPT !.queueEnd = ev]
          [] ev = "queue_started" ->
               [o EXCEPT !.queueStarted = TRUE]
          [] ev = "queue_paused" ->
               [o EXCEPT !.pauseDepth = @ + 1]
          [] ev = "queue_resumed" ->
               [o EXCEPT !.pauseDepth = @ - 1]
          [] OTHER -> o]

\* RedisQueueStore.publishEvent as the scheduler calls it, under
\* isRedisConnected: store.channel is the last event published on the channel
\* of the queue.
publishEvent(s, ev, t) ==
  IF isRedisConnected THEN [s EXCEPT !.store.channel = <<ev, t>>] ELSE s

\* publishEvent followed by the yield of the same event
EmitPublished(s, ev, t) == Emit(publishEvent(s, ev, t), ev, t)

\* The consumer loop of handleQueueStream: after writing an event it stores the
\* queue object in the in-memory map (fallback mode only) and asks for the next
\* event, which resumes the generator.
Resume(s) ==
  IF s.atYield
  THEN [s EXCEPT !.atYield = FALSE,
                 !.queues = IF isRedisConnected THEN @ ELSE @ \cup {QueueId}]
  ELSE s


\* ------------------------------------------------------- pure helper functions
\* TaskScheduler.hasWorkRemaining
hasWorkRemaining(ts) ==
  \E t \in Tasks :
    ts[t].status \in {"pending", "queued", "in_progress", "retrying"}

\* queue.tasks.filter(pending or queued), in insertion order
TaskOrder == [i \in 1..NumTasks |-> i]
pendingTasks(ts) ==
  SelectSeq(TaskOrder, LAMBDA t : ts[t].status \in {"pending", "queued"})

\* Array.prototype.sort((a, b) => a.priority - b.priority): a stable sort, an
\* element goes behind every element whose priority is not greater than its own.
RECURSIVE InsertUnstable(_, _, _)
InsertUnstable(x, sorted, ts) ==
  IF sorted = <<>> THEN <<x>>
  ELSE IF ts[x].priority <= ts[Head(sorted)].priority THEN <<x>> \o sorted
  ELSE <<Head(sorted)>> \o InsertUnstable(x, Tail(sorted), ts)

RECURSIVE InsertByPriority(_, _, _)
InsertByPriority(x, sorted, ts) ==
  IF sorted = <<>> THEN <<x>>
  ELSE IF ts[x].priority < ts[Head(sorted)].priority THEN <<x>> \o sorted
  ELSE <<Head(sorted)>> \o InsertByPriority(x, Tail(sorted), ts)

RECURSIVE SortByPriority(_, _)
SortByPriority(seq, ts) ==
  IF seq = <<>> THEN <<>>
  ELSE InsertByPriority(seq[Len(seq)],
                        SortByPriority(SubSeq(seq, 1, Len(seq) - 1), ts), ts)

Take(seq, n) == SubSeq(seq, 1, IF n < Len(seq) THEN n ELSE Len(seq))

\* TaskScheduler.getReadyTasks
getReadyTasksNoCap(ts, running, maxConcurrency) ==
  Take(SortByPriority(pendingTasks(ts), ts), maxConcurrency)

getReadyTasks(ts, running, maxConcurrency) ==
  LET currentRunning == Cardinality(running)
      availableSlots == maxConcurrency - currentRunning
  IN IF availableSlots <= 0 THEN <<>>
     ELSE Take(SortByPriority(pendingTasks(ts), ts), availableSlots)

\* TaskScheduler.calculateMetrics
CountStatus(ts, set) == Cardinality({t \in Tasks : ts[t].status \in set})
calculateMetrics(ts) ==
  [totalTasks      |-> NumTasks,
   completedTasks  |-> CountStatus(ts, {"completed"}),
   failedTasks     |-> CountStatus(ts, {"failed"}),
   pendingTasks    |-> CountStatus(ts, {"pending", "queued"}),
   inProgressTasks |-> CountStatus(ts, {"in_progress"})]

\* handlers' createInitialMetrics
createInitialMetrics(n) ==
  [totalTasks |-> n, completedTasks |-> 0, failedTasks |-> 0,
   pendingTasks |-> n, inProgressTasks |-> 0]

\* Results of executeTaskAsync: "ok" is a TaskResult, "error" is
\* TaskError{type: execution, retryable: true}, "abort" is
\* TaskError{type: abort, retryable: false}.
Results == {"ok", "error", "abort"}
Retryable(res) == res = "error"
ErrorType(res) == IF res = "error" THEN "execution" ELSE "abort"

\* What the agent's endpoint does with one request: it answers with an HTTP
\* status (200 with a body that streams to its end, or a non-2xx status), the
\* transport fails (fetch rejects), no frame arrives within the 30 s read
\* deadline, or the outer timeoutPerTask timer fires first.
HttpStatuses == {200, 401, 403, 404, 500, 503}
AgentBehaviours ==
  [kind : {"http"}, status : HttpStatuses]
    \cup [kind : {"fetch_failed", "read_timeout", "deadline"}, status : {0}]

\* executeAgentHttpRequest: the type of the last StreamResponse it yields.
\* Every throw inside the try block lands in the one catch, which tells only
\* AbortError (the signal was aborted) from everything else.
executeAgentHttpRequest(b) ==
  CASE b.kind = "deadline" -> "aborted"
    [] b.kind \in {"fetch_failed", "read_timeout"} -> "error"
    [] b.kind = "http" /\ b.status = 200 -> "done"
    [] OTHER -> "error"

\* executeTaskAsync: the TaskResult or TaskError it resolves to, as an element
\* of Results.
executeTaskAsync(b) ==
  LET response == executeAgentHttpRequest(b) IN
  CASE response = "error" -> "error"
    [] response = "aborted" -> "abort"
    [] OTHER -> "ok"

\* The retry test of the drain loop: error.retryable && retryCount < maxRetries
canRetryOffByOne(res, task) ==
  Retryable(res) /\ task.retryCount <= task.maxRetries

canRetry(res, task) ==
  Retryable(res) /\ task.retryCount < task.maxRetries

\* Map.set(key, value): a present key keeps its position
MapSet(m, t, res) ==
  IF \E i \in DOMAIN m : m[i].id = t
  THEN [i \in DOMAIN m |-> IF m[i].id = t THEN [id |-> t, res |-> res] ELSE m[i]]
  ELSE Append(m, [id |-> t, res |-> res])

\* Map.delete(key)
MapDelete(m, t) == SelectSeq(m, LAMBDA e : e.id # t)

\* RedisQueueStore.updateTask on the task hash rec.  updates is the object
\* literal of the call: a key that is not written in the literal is not in its
\* domain, a key written with the value undefined has the value "undefined".
\* status is written when truthy, startedAt and retryCount when !== undefined.
updateTask(rec, updates) ==
  [status |-> IF "status" \in DOMAIN updates THEN updates.status
              ELSE rec.status,
   startedAt |-> IF "startedAt" \in DOMAIN updates
                    /\ updates.startedAt # "undefined"
                 THEN TRUE
                 ELSE rec.startedAt,
   retryCount |-> IF "retryCount" \in DOMAIN updates THEN updates.retryCount
                  ELSE rec.retryCount]

\* The scheduler's calls of updateTask; it makes none in fallback mode.
StoreUpdateTask(s, t, updates) ==
  IF isRedisConnected
  THEN [s EXCEPT !.store.tasks[t] = updateTask(@, updates)]
  ELSE s
StoreSetStatus(s, t, st) == StoreUpdateTask(s, t, [status |-> st])
StoreSetRetry(s, t, n) == StoreUpdateTask(s, t, [retryCount |-> n])
\* RedisQueueStore.updateQueueStatus
StoreSetQueueStatus(s, st) ==
  IF isRedisConnected THEN [s EXCEPT !.store.status = st] ELSE s


\* ------------------------------------------------- executeQueue, by segments
\* TaskScheduler.startTask: the synchronous part; the promise it creates is the
\* new live entry of inflight.
startTask(s, t) ==
  [s EXCEPT !.tasks[t].status = "in_progress",
            !.tasks[t].maxRetries = settings.retryCount,
            !.runningTasks = @ \cup {t},
            !.inflight[t].live = @ + 1]

\* The three terminal branches after the metrics have been computed.
FinalEvent(s) ==
  IF s.isStopped
  THEN EmitPublished(StoreSetQueueStatus([s EXCEPT !.pc = "final"], "failed"),
            "queue_failed", 0)
  ELSE IF s.metrics.failedTasks > 0
  THEN EmitPublished(StoreSetQueueStatus([s EXCEPT !.pc = "final", !.qstatus = "failed"],
                                "failed"),
            "queue_failed", 0)
  ELSE EmitPublished(StoreSetQueueStatus([s EXCEPT !.pc = "final",
                                          !.qstatus = "completed"],
                                "completed"),
            "queue_completed", 0)

\* "Calculate final metrics"; with the store connected the generator awaits
\* updateQueueMetrics before it looks at isStopped.
Finalize(s) ==
  LET m  == calculateMetrics(s.tasks)
      s1 == [s EXCEPT !.metrics = m, !.readyTasks = <<>>, !.di = 0,
                      !.snap = <<>>, !.dk = 0]
  IN IF isRedisConnected
     THEN [s1 EXCEPT !.pc = "final_io", !.store.metrics = m]
     ELSE FinalEvent(s1)

\* One entry of the post-loop drain: no retry branch, no store update.
PostDrainOne(s, k) ==
  LET e == s.snap[k]
      t == e.id
  IN IF e.res = "ok"
     THEN Emit([s EXCEPT !.tasks[t].status = "completed", !.dk = k,
                         !.pc = "post_drain"],
               "task_completed", t)
     ELSE Emit([s EXCEPT !.tasks[t].status = "failed",
                         !.tasks[t].error = ErrorType(e.res), !.dk = k,
                         !.pc = "post_drain"],
               "task_failed", t)

\* Head of `while (this.runningTasks.size > 0 && !this.isStopped)`
PostLoop(s) ==
  LET s1 == [s EXCEPT !.readyTasks = <<>>, !.di = 0, !.snap = <<>>, !.dk = 0]
  IN IF s1.runningTasks # {} /\ ~s1.isStopped
     THEN [s1 EXCEPT !.pc = "post_sleep"]
     ELSE Finalize(s1)

\* Dispatch of readyTasks[i]: agent lookup, startTask, task_started.
DispatchOne(s, i) ==
  LET t == s.readyTasks[i] IN
  IF s.tasks[t].agentId # KnownAgent
  THEN Emit([s EXCEPT !.tasks[t].status = "failed",
                      !.tasks[t].error = "execution",
                      !.di = i, !.pc = "dispatch"],
            "task_failed", t)
  ELSE LET s1 == [startTask(s, t) EXCEPT !.di = i] IN
       IF isRedisConnected
       THEN [s1 EXCEPT !.pc = "dispatch_io",
                       !.store.busy = @ \cup {s.tasks[t].agentId}]
       ELSE EmitPublished([s1 EXCEPT !.pc = "dispatch"], "task_started", t)

\* getReadyTasks and what follows it up to the next suspension.
Ready(s) ==
  LET r == getReadyTasks(s.tasks, s.runningTasks, settings.maxConcurrency) IN
  IF r = <<>>
  THEN IF s.runningTasks # {}
       THEN [s EXCEPT !.pc = "loop"]
       ELSE PostLoop(s)
  ELSE DispatchOne([s EXCEPT !.readyTasks = r], 1)

\* The branches of the drain loop of the main loop for snap[dk].
DrainApply(s) ==
  LET e == s.snap[s.dk]
      t == e.id
      task == s.tasks[t]
  IN IF e.res = "ok"
     THEN EmitPublished(StoreSetStatus([s EXCEPT !.tasks[t].status = "completed",
                                        !.pc = "drain"],
                              t, "completed"),
               "task_completed", t)
     ELSE IF canRetry(e.res, task)
     THEN EmitPublished(StoreSetRetry(
                 StoreSetStatus([s EXCEPT !.tasks[t].status = "retrying",
                                          !.tasks[t].retryCount = @ + 1,
                                          !.timers[t] = @ + 1,
                                          !.pc = "drain"],
                                t, "retrying"),
                 t, task.retryCount + 1),
               "task_retrying", t)
     ELSE EmitPublished(StoreSetStatus([s EXCEPT !.tasks[t].status = "failed",
                                        !.tasks[t].error = ErrorType(e.res),
                                        !.pc = "drain"],
                              t, "failed"),
               "task_failed", t)

\* Entry k of the drain: with the store connected markAgentAvailable is
\* awaited before the task is touched.
DrainOne(s, k) ==
  LET t == s.snap[k].id
      s1 == [s EXCEPT !.dk = k]
  IN IF isRedisConnected
     THEN [s1 EXCEPT !.pc = "drain_io",
                     !.store.busy = @ \ {s.tasks[t].agentId}]
     ELSE DrainApply(s1)

\* "Check for completed tasks and yield events", then the 50 ms sleep.
Drain(s) ==
  LET s1 == [s EXCEPT !.readyTasks = <<>>, !.di = 0,
                      !.snap = s.completedResults, !.dk = 0]
  IN IF s1.snap = <<>>
     THEN [s1 EXCEPT !.pc = "loop"]
     ELSE DrainOne(s1, 1)


\* ------------------------------------- queue creation and the Redis key space
\* An optional value: undefined / absent is None.  A Redis string is modelled
\* the same way: the empty string is None.
None == {}
Some(v) == {v}
The(o) == CHOOSE v \in o : TRUE
\* a ?? d
OrElse(o, d) == IF o = None THEN d ELSE The(o)

\* A JavaScript number i + f/10 with f in {0, 5}.
Num(n) == [i |-> n, f |-> 0]
\* String(n) writes the digits and the fraction; parseInt(s, 10) reads the
\* leading integer digits only.
String(n) == [digits |-> n.i, point |-> n.f]
parseInt(s) == Num(s.digits)
\* x ? String(x) : "" : undefined and 0 are falsy
StringOrEmpty(o) ==
  IF o # None /\ The(o) # Num(0) THEN Some(String(The(o))) ELSE None
\* s ? parseInt(s, 10) : undefined
parseIntOrUndefined(s) == IF s # None THEN Some(parseInt(The(s))) ELSE None
\* JSON.stringify / JSON.parse of an object of numbers and strings
JSONstringify(v) == [json |-> v]
JSONparse(s) == s.json
\* x ? JSON.stringify(x) : "" and parseJson of loadTask
stringifyOrEmpty(o) == IF o # None THEN Some(JSONstringify(The(o))) ELSE None
parseJson(s) == IF s = None THEN None ELSE Some(JSONparse(The(s)))

\* priority: number; // 1 (highest) to 10 (lowest)
PriorityLowest == 10

\* const now = Date.now()
Now == 7

DefaultSettings ==
  [maxConcurrency |-> Num(3), retryCount |-> Num(3), retryDelay |-> Num(2000),
   timeoutPerTask |-> Num(300000)]

\* body.settings?.k
SettingOf(body, k) ==
  IF body.settings = None THEN None ELSE The(body.settings)[k]

\* The task objects of handleCreateQueue; generateId gives the task at
\* position index (counted from 1) the id index.
createTask(body, index) ==
  LET input == The(body.tasks)[index] IN
  [id |-> index, agentId |-> input.agentId, message |-> input.message,
   status |-> "pending",
   priority |-> OrElse(input.priority, Num(index)),
   estimatedComplexity |-> input.estimatedComplexity,
   retryCount |-> Num(0),
   maxRetries |-> OrElse(SettingOf(body, "retryCount"),
                         DefaultSettings.retryCount),
   createdAt |-> Num(Now), startedAt |-> None, completedAt |-> None,
   result |-> None, error |-> None,
   metadata |-> Some([parentQueueId |-> QueueId, createdBy |-> "user"])]

\* The queue object of handleCreateQueue
createQueue(body) ==
  [id |-> QueueId, name |-> The(body.name), description |-> body.description,
   tasks |-> [i \in 1..Len(The(body.tasks)) |-> createTask(body, i)],
   settings |-> [k \in DOMAIN DefaultSettings |->
                   OrElse(SettingOf(body, k), DefaultSettings[k])],
   status |-> "idle", createdAt |-> Num(Now), startedAt |-> None,
   completedAt |-> None,
   metrics |-> createInitialMetrics(Len(The(body.tasks)))]

\* !body.name || !body.tasks || body.tasks.length === 0
BadRequest(body) ==
  \/ body.name = None
  \/ The(body.name) = ""
  \/ body.tasks = None
  \/ Len(The(body.tasks)) = 0

\* The key space of RedisQueueStore for the queue id: the queue hash, the task
\* hashes by task id, the task-id list, the pending list and the queue index.
EmptyRedis ==
  [queue |-> None, task |-> <<>>, tasks |-> <<>>, pending |-> <<>>,
   list |-> {}]

\* HSET key data: the fields of data are written, the other fields stay
hSet(h, data) ==
  [k \in DOMAIN h \cup DOMAIN data |-> IF k \in DOMAIN data THEN data[k] ELSE h[k]]

hSetTask(r, taskId, data) ==
  [r EXCEPT !.task =
     [x \in DOMAIN @ \cup {taskId} |->
        IF x = taskId
        THEN hSet(IF taskId \in DOMAIN @ THEN @[taskId] ELSE <<>>, data)
        ELSE @[x]]]

\* RedisQueueStore.saveTask
saveTask(r, task) ==
  hSetTask(r, task.id,
    [id |-> task.id, agentId |-> task.agentId, message |-> task.message,
     status |-> task.status,
     priority |-> String(task.priority),
     retryCount |-> String(task.retryCount),
     maxRetries |-> String(task.maxRetries),
     createdAt |-> String(task.createdAt),
     startedAt |-> StringOrEmpty(task.startedAt),
     completedAt |-> StringOrEmpty(task.completedAt),
     estimatedComplexity |-> task.estimatedComplexity,
     result |-> stringifyOrEmpty(task.result),
     error |-> stringifyOrEmpty(task.error),
     metadata |-> stringifyOrEmpty(task.metadata)])

RECURSIVE saveQueueTasks(_, _, _)
saveQueueTasks(r, ts, i) ==
  IF i > Len(ts) THEN r
  ELSE LET r1 == saveTask(r, ts[i])
           r2 == [r1 EXCEPT !.tasks = Append(@, ts[i].id)]
           r3 == IF ts[i].status \in {"pending", "queued"}
                 THEN [r2 EXCEPT !.pending = Append(@, ts[i].id)]
                 ELSE r2
       IN saveQueueTasks(r3, ts, i + 1)

\* RedisQueueStore.saveQueue
saveQueue(r, q) ==
  LET queueData ==
        [id |-> q.id, name |-> q.name, status |-> q.status,
         createdAt |-> String(q.createdAt),
         startedAt |-> StringOrEmpty(q.startedAt),
         completedAt |-> StringOrEmpty(q.completedAt),
         settings |-> JSONstringify(q.settings),
         metrics |-> JSONstringify(q.metrics)]
      r1 == [r EXCEPT
               !.queue = Some(hSet(IF @ = None THEN <<>> ELSE The(@), queueData)),
               !.list = @ \cup {q.id}]
  IN saveQueueTasks(r1, q.tasks, 1)

\* RedisQueueStore.loadTask
loadTask(r, taskId) ==
  IF taskId \notin DOMAIN r.task \/ "id" \notin DOMAIN r.task[taskId]
  THEN None
  ELSE LET taskData == r.task[taskId] IN
       Some([id |-> taskData.id, agentId |-> taskData.agentId,
             message |-> taskData.message, status |-> taskData.status,
             priority |-> parseInt(taskData.priority),
             estimatedComplexity |-> taskData.estimatedComplexity,
             retryCount |-> parseInt(taskData.retryCount),
             maxRetries |-> parseInt(taskData.maxRetries),
             createdAt |-> parseInt(taskData.createdAt),
             startedAt |-> parseIntOrUndefined(taskData.startedAt),
             completedAt |-> parseIntOrUndefined(taskData.completedAt),
             result |-> parseJson(taskData.result),
             error |-> parseJson(taskData.error),
             metadata |-> parseJson(taskData.metadata)])

RECURSIVE loadTasks(_, _)
loadTasks(r, taskIds) ==
  IF taskIds = <<>> THEN <<>>
  ELSE LET task == loadTask(r, Head(taskIds)) IN
       (IF task = None THEN <<>> ELSE <<The(task)>>)
         \o loadTasks(r, Tail(taskIds))

\* RedisQueueStore.loadQueue; the object it builds has no description
loadQueue(r, queueId) ==
  IF queueId # QueueId \/ r.queue = None \/ "id" \notin DOMAIN The(r.queue)
  THEN None
  ELSE LET queueData == The(r.queue) IN
       Some([id |-> queueData.id, name |-> queueData.name,
             description |-> None,
             status |-> queueData.status,
             tasks |-> loadTasks(r, r.tasks),
             settings |-> JSONparse(queueData.settings),
             metrics |-> JSONparse(queueData.metrics),
             createdAt |-> parseInt(queueData.createdAt),
             startedAt |-> parseIntOrUndefined(queueData.startedAt),
             completedAt |-> parseIntOrUndefined(queueData.completedAt)])

\* The keys of the partial of RedisQueueStore.updateTask
UpdateKeys ==
  {"status", "startedAt", "completedAt", "result", "error", "retryCount"}

\* The hash fields updateTask writes.  updates has the six keys; None is a key
\* that is undefined in the partial.  status is written when truthy, the
\* others when !== undefined.
updateData(updates) ==
  LET written == {k \in UpdateKeys :
                    /\ updates[k] # None
                    /\ k = "status" => The(updates[k]) # ""}
  IN [k \in written |->
        CASE k = "status" -> The(updates[k])
          [] k \in {"startedAt", "completedAt"} -> StringOrEmpty(updates[k])
          [] k \in {"result", "error"} -> stringifyOrEmpty(updates[k])
          [] k = "retryCount" -> String(The(updates[k]))]

\* RedisQueueStore.updateTask on the key space
updateTaskHashAll(r, taskId, updates) ==
  hSetTask(r, taskId,
           [k \in UpdateKeys |->
              IF k \in DOMAIN updateData(updates) THEN updateData(updates)[k]
              ELSE None])

updateTaskHash(r, taskId, updates) ==
  IF DOMAIN updateData(updates) # {}
  THEN hSetTask(r, taskId, updateData(updates))
  ELSE r

\* RedisQueueStore.requeueTask: LPUSH on the pending list
requeueTask(r, taskId) == [r EXCEPT !.pending = <<taskId>> \o @]

\* The partial of handleRetryTask: error, result, startedAt and completedAt
\* are written with the value undefined
RetryUpdates ==
  [status |-> Some("pending"), retryCount |-> Some(Num(0)), error |-> None,
   result |-> None, startedAt |-> None, completedAt |-> None]

\* The start requests the model follows, none of them received yet: pc is the
\* position of the handler, loaded the queue status it has read, response the
\* HTTP status it has answered with (0: none yet).
StartRequests == {1, 2}

NoStarts == [r \in StartRequests |-> [pc |-> "none", loaded |-> "none", response |-> 0]]

\* No second stream request has been made: pc is the position of its
\* executeQueue, tasks the task statuses of the queue object it has loaded
\* from the store, runningTasks the map of its scheduler.
NoSecond == [pc |-> "none", tasks |-> <<>>, runningTasks |-> {}]

\* No request has been made
NoRequest ==
  [body |-> None, status |-> 0, queue |-> None, get |-> 0, loaded |-> None,
   retry |-> 0]


\* --------------------------------------------------------------------- Init
\* The state after handleCreateQueue has stored the queue: save to the store
\* if it is available, otherwise to the in-memory map.
NewTask(prio, agent, maxRetries) ==
  [status |-> "pending", priority |-> prio, retryCount |-> 0,
   maxRetries |-> maxRetries, agentId |-> agent, error |-> "none"]

EmptyStore ==
  [exists |-> FALSE, status |-> "none",
   tasks |-> [t \in Tasks |-> [status |-> "none", startedAt |-> FALSE,
                                retryCount |-> 0]],
   pending |-> <<>>, busy |-> {}, metrics |-> createInitialMetrics(0),
   channel |-> NoEvent]

\* RedisQueueStore.saveQueue of a freshly created queue
SavedStore(ts) ==
  [exists |-> TRUE, status |-> "idle",
   tasks |-> [t \in Tasks |-> [status |-> ts[t].status, startedAt |-> FALSE,
                                retryCount |-> ts[t].retryCount]],
   pending |-> pendingTasks(ts), busy |-> {},
   metrics |-> createInitialMetrics(NumTasks), channel |-> NoEvent]

\* recoverInterruptedQueues has not run: `interrupted` is the list returned by
\* loadInterruptedQueues, i the position of resetInterruptedQueue in the task
\* list, reset the tasks it has set back to pending; ran says that the process
\* has been restarted and has run its recovery, resumed that the resume
\* endpoint has been called since.
NoRecovery ==
  [interrupted |-> {}, i |-> 0, reset |-> {}, ran |-> FALSE, resumed |-> FALSE]

Init ==
  /\ settings \in [maxConcurrency : 1..MaxConcurrency,
                   retryCount : 0..MaxRetryCount]
  /\ isRedisConnected \in BOOLEAN
  /\ \E prio \in [Tasks -> 1..MaxPriority], agent \in [Tasks -> Agents] :
       tasks = [t \in Tasks |-> NewTask(prio[t], agent[t], settings.retryCount)]
  /\ qstatus = "idle"
  /\ metrics = createInitialMetrics(NumTasks)
  /\ runningTasks = {}
  /\ completedResults = <<>>
  /\ isPaused = FALSE
  /\ isStopped = FALSE
  /\ pc = "init"
  /\ readyTasks = <<>>
  /\ di = 0
  /\ snap = <<>>
  /\ dk = 0
  /\ atYield = FALSE
  /\ inflight = [t \in Tasks |-> [live |-> 0, aborted |-> 0]]
  /\ timers = [t \in Tasks |-> 0]
  /\ activeSchedulers = {}
  /\ queues = IF isRedisConnected THEN {} ELSE {QueueId}
  /\ store = IF isRedisConnected THEN SavedStore(tasks) ELSE EmptyStore
  /\ obs = [started |-> [t \in Tasks |-> 0], retrying |-> [t \in Tasks |-> 0],
            completed |-> [t \in Tasks |-> 0], failed |-> [t \in Tasks |-> 0],
            open |-> [t \in Tasks |-> FALSE], lastPrio |-> 0,
            queueStarted |-> FALSE, queueEnd |-> "none", pauseDepth |-> 0,
            stream |-> NoEvent]
  /\ retryCalls = 0
  /\ recovery = NoRecovery
  /\ redis = EmptyRedis
  /\ http = NoRequest
  /\ second = NoSecond
  /\ starts = NoStarts

\* What the handlers find when they look the queue up: the store when it is
\* available, otherwise the in-memory map.
QueueExists == IF isRedisConnected THEN store.exists ELSE QueueId \in queues
LoadedStatus == IF isRedisConnected THEN store.status ELSE qstatus

\* ------------------------------------------------------- scheduler actions
\* handleQueueStream up to the first suspension of executeQueue: the scheduler
\* is created and registered, executeQueue resets its flags and maps.
ExecStart ==
  /\ pc \in {"init", "recovered"}
  /\ QueueExists
  /\ LET s1 == [St EXCEPT !.activeSchedulers = @ \cup {QueueId},
                          !.isPaused = FALSE, !.isStopped = FALSE,
                          !.runningTasks = {}, !.completedResults = <<>>]
     IN IF isRedisConnected
        THEN Apply(StoreSetQueueStatus([s1 EXCEPT !.pc = "start_io"], "running"))
        ELSE Apply(EmitPublished([s1 EXCEPT !.pc = "loop"], "queue_started", 0))

\* after `await updateQueueStatus`: publish and yield queue_started
StartIo ==
  /\ pc = "start_io"
  /\ Apply(EmitPublished([St EXCEPT !.pc = "loop"], "queue_started", 0))

\* Head of the main loop: loop condition, pause gate, ready set, first dispatch.
LoopHeadNoWait ==
  /\ pc = "loop"
  /\ LET s0 == Resume(St) IN
     IF ~(hasWorkRemaining(s0.tasks) /\ ~s0.isStopped)
     THEN Apply(PostLoop(s0))
     ELSE IF s0.isPaused
     THEN Apply(Emit([s0 EXCEPT !.pc = "loop"], "queue_paused", 0))
     ELSE Apply(Ready(s0))

LoopHead ==
  /\ pc = "loop"
  /\ LET s0 == Resume(St) IN
     IF ~(hasWorkRemaining(s0.tasks) /\ ~s0.isStopped)
     THEN Apply(PostLoop(s0))
     ELSE IF s0.isPaused
     THEN Apply(Emit([s0 EXCEPT !.pc = "pause_wait"], "queue_paused", 0))
     ELSE Apply(Ready(s0))

\* `while (this.isPaused && !this.isStopped) await sleep(100)` has been left
PauseWait ==
  /\ pc = "pause_wait"
  /\ ~(isPaused /\ ~isStopped)
  /\ LET s0 == Resume(St) IN
     IF s0.isStopped
     THEN Apply(PostLoop(s0))
     ELSE Apply(Emit([s0 EXCEPT !.pc = "resumed"], "queue_resumed", 0))

\* after `yield queue_resumed`: straight to getReadyTasks
Resumed ==
  /\ pc = "resumed"
  /\ Apply(Ready(Resume(St)))

\* after the awaits that follow startTask: updateTask, publish, task_started
DispatchIo ==
  /\ pc = "dispatch_io"
  /\ LET t == readyTasks[di] IN
     Apply(EmitPublished(StoreUpdateTask([St EXCEPT !.pc = "dispatch"], t,
                                [status |-> "in_progress", startedAt |-> "now"]),
                "task_started", t))

\* after the yield of one dispatch: the next ready task, or the drain
DispatchNext ==
  /\ pc = "dispatch"
  /\ LET s0 == Resume(St) IN
     IF s0.di < Len(s0.readyTasks)
     THEN Apply(DispatchOne(s0, s0.di + 1))
     ELSE Apply(Drain(s0))

\* after `await markAgentAvailable`
DrainIo ==
  /\ pc = "drain_io"
  /\ Apply(DrainApply(St))

\* after the yield of one drained entry: delete it, then the next entry or the
\* 50 ms sleep
DrainNextNoDelete ==
  /\ pc = "drain"
  /\ LET s1 == Resume(St)
     IN IF s1.dk < Len(s1.snap)
        THEN Apply(DrainOne(s1, s1.dk + 1))
        ELSE Apply([s1 EXCEPT !.pc = "loop", !.snap = <<>>, !.dk = 0])

DrainNext ==
  /\ pc = "drain"
  /\ LET s0 == Resume(St)
         s1 == [s0 EXCEPT !.completedResults = MapDelete(@, s0.snap[s0.dk].id)]
     IN IF s1.dk < Len(s1.snap)
        THEN Apply(DrainOne(s1, s1.dk + 1))
        ELSE Apply([s1 EXCEPT !.pc = "loop", !.snap = <<>>, !.dk = 0])

\* post-loop: after the 100 ms sleep, process the completed results
PostWake ==
  /\ pc = "post_sleep"
  /\ LET s1 == [St EXCEPT !.snap = completedResults, !.dk = 0] IN
     IF s1.snap = <<>>
     THEN Apply(PostLoop(s1))
     ELSE Apply(PostDrainOne(s1, 1))

PostDrainNext ==
  /\ pc = "post_drain"
  /\ LET s0 == Resume(St)
         s1 == [s0 EXCEPT !.completedResults = MapDelete(@, s0.snap[s0.dk].id)]
     IN IF s1.dk < Len(s1.snap)
        THEN Apply(PostDrainOne(s1, s1.dk + 1))
        ELSE Apply(PostLoop(s1))

\* after `await updateQueueMetrics`
FinalIo ==
  /\ pc = "final_io"
  /\ Apply(FinalEvent(St))

\* the generator returns; `finally { activeSchedulers.delete(queueId) }`
ExecFinish ==
  /\ pc = "final"
  /\ Apply([Resume(St) EXCEPT !.pc = "done", !.activeSchedulers = @ \ {QueueId}])


\* ------------------------------------------------- background and timers
\* `.then` of startTask for a live invocation: runningTasks.delete,
\* completedResults.set.  res is what executeTaskAsync resolved to.
TaskSettle(t, res) ==
  /\ inflight[t].live > 0
  /\ inflight' = [inflight EXCEPT ![t].live = @ - 1]
  /\ runningTasks' = runningTasks \ {t}
  /\ completedResults' = MapSet(completedResults, t, res)
  /\ UNCHANGED <<settings, starts, second, redis, http, recovery, isRedisConnected, tasks, qstatus, metrics, isPaused,
                 isStopped, pc, readyTasks, di, snap, dk, atYield, timers,
                 activeSchedulers, queues, store, obs, retryCalls>>

\* the same for an invocation whose AbortController stop() has aborted
AbortedSettle(t) ==
  /\ inflight[t].aborted > 0
  /\ inflight' = [inflight EXCEPT ![t].aborted = @ - 1]
  /\ runningTasks' = runningTasks \ {t}
  /\ completedResults' = MapSet(completedResults, t, "abort")
  /\ UNCHANGED <<settings, starts, second, redis, http, recovery, isRedisConnected, tasks, qstatus, metrics, isPaused,
                 isStopped, pc, readyTasks, di, snap, dk, atYield, timers,
                 activeSchedulers, queues, store, obs, retryCalls>>

\* the setTimeout callback of the retry branch: status back to pending and,
\* with the store connected, requeueTask (lPush on the pending list)
RetryTimer(t) ==
  /\ timers[t] > 0
  /\ timers' = [timers EXCEPT ![t] = @ - 1]
  /\ tasks' = [tasks EXCEPT ![t].status = "pending"]
  /\ store' = IF isRedisConnected
              THEN [store EXCEPT !.pending = <<t>> \o @]
              ELSE store
  /\ UNCHANGED <<settings, starts, second, redis, http, recovery, isRedisConnected, qstatus, metrics, runningTasks,
                 completedResults, isPaused, isStopped, pc, readyTasks, di,
                 snap, dk, atYield, inflight, activeSchedulers, queues, obs,
                 retryCalls>>

\* ---------------------------------------------------------------- handlers
\* TaskScheduler.pause / resume are reached through activeSchedulers only.
\* In fallback mode the handlers mutate the queue object the scheduler holds;
\* with the store connected they mutate a loaded copy and write the store.
HandlePauseQueue ==
  /\ QueueExists
  /\ isPaused' = IF QueueId \in activeSchedulers THEN TRUE ELSE isPaused
  /\ qstatus' = IF isRedisConnected THEN qstatus ELSE "paused"
  /\ store' = IF isRedisConnected THEN [store EXCEPT !.status = "paused"]
              ELSE store
  /\ UNCHANGED <<settings, starts, second, redis, http, recovery, isRedisConnected, tasks, metrics, runningTasks,
                 completedResults, isStopped, pc, readyTasks, di, snap, dk,
                 atYield, inflight, timers, activeSchedulers, queues, obs,
                 retryCalls>>

HandleResumeQueue ==
  /\ QueueExists
  /\ isPaused' = IF QueueId \in activeSchedulers THEN FALSE ELSE isPaused
  /\ qstatus' = IF isRedisConnected THEN qstatus ELSE "running"
  /\ store' = IF isRedisConnected THEN [store EXCEPT !.status = "running"]
              ELSE store
  /\ recovery' = [recovery EXCEPT !.resumed = @ \/ recovery.ran]
  /\ UNCHANGED <<settings, starts, second, redis, http, isRedisConnected, tasks, metrics, runningTasks,
                 completedResults, isStopped, pc, readyTasks, di, snap, dk,
                 atYield, inflight, timers, activeSchedulers, queues, obs,
                 retryCalls>>

\* 400 when the queue is already running (no change: not a step)
HandleStartQueue ==
  /\ QueueExists
  /\ LoadedStatus # "running"
  /\ qstatus' = IF isRedisConnected THEN qstatus ELSE "running"
  /\ store' = IF isRedisConnected THEN [store EXCEPT !.status = "running"]
              ELSE store
  /\ UNCHANGED <<settings, starts, second, redis, http, recovery, isRedisConnected, tasks, metrics, runningTasks,
                 completedResults, isPaused, isStopped, pc, readyTasks, di,
                 snap, dk, atYield, inflight, timers, activeSchedulers, queues,
                 obs, retryCalls>>

\* handleStartQueue of request r, step by step.  In the fallback the handler
\* has no await: lookup, status test, assignment and response are one step.
\* With the store connected it awaits loadQueue, which reads the status hash.
StartLoad(r) ==
  /\ QueueExists
  /\ starts[r].pc = "none"
  /\ IF isRedisConnected
     THEN /\ starts' = [starts EXCEPT ![r] = [pc |-> "loaded",
                                              loaded |-> store.status,
                                              response |-> 0]]
          /\ UNCHANGED qstatus
     ELSE /\ starts' = [starts EXCEPT ![r] =
                          [pc |-> "done", loaded |-> qstatus,
                           response |-> IF qstatus = "running" THEN 400 ELSE 200]]
          /\ qstatus' = "running"
  /\ UNCHANGED <<settings, second, redis, http, recovery, isRedisConnected, tasks,
                 metrics, runningTasks, completedResults, isPaused, isStopped, pc,
                 readyTasks, di, snap, dk, atYield, inflight, timers,
                 activeSchedulers, queues, store, obs, retryCalls>>

\* after `await loadQueue`: the status test on the loaded copy, then
\* updateQueueStatus(running) and the 200 response
StartRespond(r) ==
  /\ starts[r].pc = "loaded"
  /\ starts' = [starts EXCEPT ![r].pc = "done",
                              ![r].response = IF starts[r].loaded = "running"
                                              THEN 400 ELSE 200]
  /\ store' = IF starts[r].loaded = "running" THEN store
              ELSE [store EXCEPT !.status = "running"]
  /\ UNCHANGED <<settings, second, redis, http, recovery, isRedisConnected, tasks,
                 qstatus, metrics, runningTasks, completedResults, isPaused,
                 isStopped, pc, readyTasks, di, snap, dk, atYield, inflight,
                 timers, activeSchedulers, queues, obs, retryCalls>>

\* RedisQueueStore.deleteQueue
DeletedStore(st) ==
  [st EXCEPT !.exists = FALSE, !.status = "none", !.pending = <<>>,
             !.tasks = [t \in Tasks |-> [status |-> "none", startedAt |-> FALSE,
                                          retryCount |-> 0]]]

\* The status of the response of handleDeleteQueue: 404 for a queue that is not
\* found, 400 for a running queue without force=true, else 200.
deleteResponse(force) ==
  IF ~QueueExists THEN 404
  ELSE IF LoadedStatus = "running" /\ ~force THEN 400
  ELSE 200

\* handleDeleteQueue.  A request that is answered 404 or 400 returns before it
\* has changed anything.  TaskScheduler.stop aborts the controller of every
\* entry of runningTasks and clears the map.
HandleDeleteQueueUnchecked(force) ==
  /\ QueueExists
  /\ IF QueueId \in activeSchedulers
     THEN /\ isStopped' = TRUE
          /\ isPaused' = FALSE
          /\ inflight' = [t \in Tasks |->
                            IF t \in runningTasks /\ inflight[t].live > 0
                            THEN [live |-> inflight[t].live - 1,
                                  aborted |-> inflight[t].aborted + 1]
                            ELSE inflight[t]]
          /\ runningTasks' = {}
          /\ activeSchedulers' = activeSchedulers \ {QueueId}
     ELSE UNCHANGED <<isStopped, isPaused, inflight, runningTasks,
                      activeSchedulers>>
  /\ store' = IF isRedisConnected THEN DeletedStore(store) ELSE store
  /\ queues' = IF isRedisConnected THEN queues ELSE queues \ {QueueId}
  /\ UNCHANGED <<settings, starts, second, redis, http, recovery, isRedisConnected, tasks, qstatus, metrics,
                 completedResults, pc, readyTasks, di, snap, dk, atYield,
                 timers, obs, retryCalls>>

HandleDeleteQueue(force) ==
  IF deleteResponse(force) # 200
  THEN UNCHANGED vars
  ELSE /\ IF QueueId \in activeSchedulers
          THEN /\ isStopped' = TRUE
               /\ isPaused' = FALSE
               /\ inflight' = [t \in Tasks |->
                                 IF t \in runningTasks /\ inflight[t].live > 0
                                 THEN [live |-> inflight[t].live - 1,
                                       aborted |-> inflight[t].aborted + 1]
                                 ELSE inflight[t]]
               /\ runningTasks' = {}
               /\ activeSchedulers' = activeSchedulers \ {QueueId}
          ELSE UNCHANGED <<isStopped, isPaused, inflight, runningTasks,
                           activeSchedulers>>
       /\ store' = IF isRedisConnected THEN DeletedStore(store) ELSE store
       /\ queues' = IF isRedisConnected THEN queues ELSE queues \ {QueueId}
       /\ UNCHANGED <<settings, starts, second, redis, http, recovery, isRedisConnected, tasks,
                      qstatus, metrics, completedResults, pc, readyTasks, di,
                      snap, dk, atYield, timers, obs, retryCalls>>

\* handleRetryTask: the task is reset to pending with retryCount 0; with the
\* store connected the reset goes to the store and the id is requeued.
HandleRetryTask(t) ==
  /\ QueueExists
  /\ retryCalls < MaxRetryCalls
  /\ retryCalls' = retryCalls + 1
  /\ tasks' = IF isRedisConnected THEN tasks
              ELSE [tasks EXCEPT ![t].status = "pending", ![t].retryCount = 0,
                                 ![t].error = "none"]
  /\ store' = IF isRedisConnected
              THEN [store EXCEPT
                      !.tasks[t] = updateTask(@, [status |-> "pending",
                                                  retryCount |-> 0,
                                                  startedAt |-> "undefined"]),
                      !.pending = <<t>> \o @]
              ELSE store
  /\ UNCHANGED <<settings, starts, second, redis, http, recovery, isRedisConnected, qstatus, metrics, runningTasks,
                 completedResults, isPaused, isStopped, pc, readyTasks, di,
                 snap, dk, atYield, inflight, timers, activeSchedulers, queues,
                 obs>>

\* handleGetBusyAgents: the body of the 200 response.  With the store
\* available it is the busy-agents set of the store; the fallback branch is
\* empty and answers with the empty list.
handleGetBusyAgents(redisAvailable) ==
  IF redisAvailable THEN store.busy ELSE {}

\* ------------------------------------------------------ restart and recovery
\* RedisQueueStore.loadQueue as the stream handler calls it: the tasks come
\* from their hashes.  priority, agentId and maxRetries are written by
\* saveQueue only, so they are the values the tasks were created with; the
\* error field is not part of the store model.
loadQueueTasks(st, ts) ==
  [t \in Tasks |-> [ts[t] EXCEPT !.status = st.tasks[t].status,
                                 !.retryCount = st.tasks[t].retryCount,
                                 !.error = "none"]]

RecoveryPcs == {"recover", "reset", "reset_task", "reset_busy", "recovered"}

\* The backend process dies and is started again; the store survives.  The
\* first request for the stream of the queue loads it, creates a scheduler
\* and calls initRedis, which connects and starts recoverInterruptedQueues.
Crash ==
  /\ isRedisConnected
  /\ pc \notin RecoveryPcs
  /\ ~recovery.ran
  /\ store.exists
  /\ pc' = "recover"
  /\ tasks' = loadQueueTasks(store, tasks)
  /\ qstatus' = store.status
  /\ metrics' = store.metrics
  /\ runningTasks' = {}
  /\ completedResults' = <<>>
  /\ isPaused' = FALSE
  /\ isStopped' = FALSE
  /\ readyTasks' = <<>>
  /\ di' = 0
  /\ snap' = <<>>
  /\ dk' = 0
  /\ atYield' = FALSE
  /\ inflight' = [t \in Tasks |-> [live |-> 0, aborted |-> 0]]
  /\ timers' = [t \in Tasks |-> 0]
  /\ activeSchedulers' = {}
  /\ queues' = {}
  /\ obs' = [started |-> [t \in Tasks |-> 0], retrying |-> [t \in Tasks |-> 0],
             completed |-> [t \in Tasks |-> 0], failed |-> [t \in Tasks |-> 0],
             open |-> [t \in Tasks |-> FALSE], lastPrio |-> 0,
             queueStarted |-> FALSE, queueEnd |-> "none", pauseDepth |-> 0,
            stream |-> NoEvent]
  /\ recovery' = NoRecovery
  /\ store' = [store EXCEPT !.channel = NoEvent]
  /\ UNCHANGED <<settings, starts, second, redis, http, isRedisConnected, retryCalls>>

\* RedisQueueStore.loadInterruptedQueues: the queues whose status is running
\* or paused
loadInterruptedQueues(st) ==
  IF st.exists /\ st.status \in {"running", "paused"} THEN {QueueId} ELSE {}

\* recoverInterruptedQueues up to the first resetInterruptedQueue
RecoverLoad ==
  /\ pc = "recover"
  /\ LET interrupted == loadInterruptedQueues(store) IN
     /\ recovery' = [recovery EXCEPT !.interrupted = interrupted, !.ran = TRUE]
     /\ pc' = IF interrupted = {} THEN "recovered" ELSE "reset"
  /\ UNCHANGED <<settings, starts, second, redis, http, isRedisConnected, tasks, qstatus, metrics,
                 runningTasks, completedResults, isPaused, isStopped,
                 readyTasks, di, snap, dk, atYield, inflight, timers,
                 activeSchedulers, queues, store, obs, retryCalls>>

\* resetInterruptedQueue on the store contents, by parts: the head
\* (updateQueueStatus(paused), del of the pending list), one turn of the loop
\* over the task ids, the tail (del of the busy-agents set).
resetBeginNoClear(st) == [st EXCEPT !.status = "paused"]

resetBegin(st) == [st EXCEPT !.status = "paused", !.pending = <<>>]

resetTask(st, t) ==
  LET task == st.tasks[t] IN
  IF task.status \in {"in_progress", "retrying"}
  THEN [st EXCEPT !.tasks[t] = updateTask(@, [status |-> "pending",
                                              startedAt |-> "undefined"]),
                  !.pending = Append(@, t)]
  ELSE IF task.status \in {"pending", "queued"}
  THEN [st EXCEPT !.pending = Append(@, t)]
  ELSE st

resetEnd(st) == [st EXCEPT !.busy = {}]

\* the loop over the first n ids of the task list
RECURSIVE resetTasks(_, _)
resetTasks(st, n) ==
  IF n = 0 THEN st ELSE resetTask(resetTasks(st, n - 1), TaskOrder[n])

\* RedisQueueStore.resetInterruptedQueue as a whole
resetInterruptedQueue(st) == resetEnd(resetTasks(resetBegin(st), NumTasks))

\* resetInterruptedQueue: updateQueueStatus(paused), read the task list, delete
\* the pending list
RecoverBeginNoClear ==
  /\ pc = "reset"
  /\ store' = [store EXCEPT !.status = "paused"]
  /\ recovery' = [recovery EXCEPT !.i = 1]
  /\ pc' = "reset_task"
  /\ UNCHANGED <<settings, starts, second, redis, http, isRedisConnected, tasks, qstatus, metrics,
                 runningTasks, completedResults, isPaused, isStopped,
                 readyTasks, di, snap, dk, atYield, inflight, timers,
                 activeSchedulers, queues, obs, retryCalls>>

RecoverBegin ==
  /\ pc = "reset"
  /\ store' = resetBegin(store)
  /\ recovery' = [recovery EXCEPT !.i = 1]
  /\ pc' = "reset_task"
  /\ UNCHANGED <<settings, starts, second, redis, http, isRedisConnected, tasks, qstatus, metrics,
                 runningTasks, completedResults, isPaused, isStopped,
                 readyTasks, di, snap, dk, atYield, inflight, timers,
                 activeSchedulers, queues, obs, retryCalls>>

\* one turn of `for (const taskId of taskIds)`, or the end of the loop
RecoverTask ==
  /\ pc = "reset_task"
  /\ IF recovery.i > NumTasks
     THEN /\ pc' = "reset_busy"
          /\ UNCHANGED <<store, recovery>>
     ELSE LET t == TaskOrder[recovery.i] IN
          /\ pc' = pc
          /\ store' = resetTask(store, t)
          /\ recovery' =
               [recovery EXCEPT
                  !.i = @ + 1,
                  !.reset = IF store.tasks[t].status \in {"in_progress",
                                                          "retrying"}
                            THEN @ \cup {t} ELSE @]
  /\ UNCHANGED <<settings, starts, second, redis, http, isRedisConnected, tasks, qstatus, metrics,
                 runningTasks, completedResults, isPaused, isStopped,
                 readyTasks, di, snap, dk, atYield, inflight, timers,
                 activeSchedulers, queues, obs, retryCalls>>

\* `del(KEYS.BUSY_AGENTS)`; recoverInterruptedQueues has no other queue to
\* reset and returns
RecoverEnd ==
  /\ pc = "reset_busy"
  /\ store' = resetEnd(store)
  /\ pc' = "recovered"
  /\ UNCHANGED <<settings, starts, second, redis, http, isRedisConnected, tasks, qstatus, metrics,
                 runningTasks, completedResults, isPaused, isStopped,
                 readyTasks, di, snap, dk, atYield, inflight, timers,
                 activeSchedulers, queues, obs, retryCalls, recovery>>

\* ------------------------------------------------------------ specification
\* The segments of the main loop and of the terminal block.
MainLoopStep ==
  \/ ExecStart
  \/ StartIo
  \/ LoopHead
  \/ PauseWait
  \/ Resumed
  \/ DispatchIo
  \/ DispatchNext
  \/ DrainIo
  \/ DrainNext
  \/ FinalIo
  \/ ExecFinish

\* The scheduler with its invocations, its retry timers and the pause, resume,
\* start and delete endpoints.  The post-loop drain is not part of it: the main
\* loop is left with a non-empty runningTasks only when stop() has been called
\* or when the retry endpoint has rewritten a task behind the scheduler's back
\* (PostLoopDrainUnreachable), so its segments belong to SpecRetry.
Next ==
  \/ MainLoopStep
  \/ \E t \in Tasks, b \in AgentBehaviours : TaskSettle(t, executeTaskAsync(b))
  \/ \E t \in Tasks : AbortedSettle(t)
  \/ \E t \in Tasks : RetryTimer(t)
  \/ HandlePauseQueue
  \/ HandleResumeQueue
  \/ HandleStartQueue
  \/ \E force \in BOOLEAN : HandleDeleteQueue(force)

Spec == Init /\ [][Next]_vars

PostLoopDrainUnreachable == pc \notin {"post_sleep", "post_drain"}

\* The same system with the retry endpoint.  The inputs that do not enter the
\* retry accounting are fixed: equal priorities, every agent known.
InitRetry ==
  /\ Init
  /\ \A t \in Tasks : tasks[t].priority = 1 /\ tasks[t].agentId = KnownAgent

NextRetry ==
  \/ Next
  \/ PostWake
  \/ PostDrainNext
  \/ \E t \in Tasks : HandleRetryTask(t)

SpecRetry == InitRetry /\ [][NextRetry]_vars

\* The undisturbed run: every invocation succeeds, no control endpoint is
\* called, no per-task timeout fires.
NextHappy ==
  \/ ExecStart
  \/ StartIo
  \/ LoopHead
  \/ DispatchIo
  \/ DispatchNext
  \/ DrainIo
  \/ DrainNext
  \/ FinalIo
  \/ ExecFinish
  \/ \E t \in Tasks :
       TaskSettle(t, executeTaskAsync([kind |-> "http", status |-> 200]))

SpecHappy == Init /\ [][NextHappy]_vars

\* A store operation the generator is awaiting rejects (no store method and no
\* part of executeQueue catches it): the generator ends by throwing, the
\* `catch` of handleQueueStream writes a queue_failed event with the message
\* to the stream, and `finally` removes the scheduler from activeSchedulers.
\* Invocations already started keep running.
StoreThrows ==
  /\ isRedisConnected
  /\ pc \in {"start_io", "dispatch_io", "drain_io", "final_io"}
  /\ Apply([St EXCEPT !.pc = "done", !.atYield = FALSE,
                      !.activeSchedulers = @ \ {QueueId},
                      !.obs = [@ EXCEPT !.stream = <<"queue_failed", 0>>,
                                        !.queueEnd = "queue_failed"]])

\* Two start requests for the queue, with no stream request.
NextStart ==
  \/ \E r \in StartRequests : StartLoad(r)
  \/ \E r \in StartRequests : StartRespond(r)

SpecStart == Init /\ [][NextStart]_vars

\* The run in which every invocation succeeds and store operations may fail.
NextStoreFail ==
  \/ NextHappy
  \/ StoreThrows

SpecStoreFail == Init /\ [][NextStoreFail]_vars

\* The run in which every attempt of every invocation fails with a retryable
\* error, and no control endpoint is called.
NextAllFail ==
  \/ ExecStart
  \/ StartIo
  \/ LoopHead
  \/ DispatchIo
  \/ DispatchNext
  \/ DrainIo
  \/ DrainNext
  \/ FinalIo
  \/ ExecFinish
  \/ \E t \in Tasks :
       TaskSettle(t, executeTaskAsync([kind |-> "http", status |-> 503]))
  \/ \E t \in Tasks : RetryTimer(t)

SpecAllFail == Init /\ [][NextAllFail]_vars

\* The system on a connected store, with a crash at any moment followed by
\* a restart and the recovery of the first stream request.  The recovery runs
\* with no other request in between; the run of executeQueue that follows it
\* is not part of this specification.
InitRecover == Init /\ isRedisConnected

NextRecover ==
  \/ pc \notin RecoveryPcs /\ Next
  \/ Crash
  \/ RecoverLoad
  \/ RecoverBegin
  \/ RecoverTask
  \/ RecoverEnd

SpecRecover == InitRecover /\ [][NextRecover]_vars

\* handleQueueStream for another queue while the scheduler of this queue is
\* active: the new scheduler's initRedis runs recoverInterruptedQueues, which
\* resets every queue the store lists as running or paused.
OtherStreamInit ==
  /\ isRedisConnected
  /\ QueueId \in activeSchedulers
  /\ loadInterruptedQueues(store) # {}
  /\ store' = resetInterruptedQueue(store)
  /\ UNCHANGED <<settings, starts, second, redis, http, recovery,
                 isRedisConnected, tasks, qstatus, metrics, runningTasks,
                 completedResults, isPaused, isStopped, pc, readyTasks, di, snap,
                 dk, atYield, inflight, timers, activeSchedulers, queues, obs,
                 retryCalls>>

\* The undisturbed run on a connected store, with stream requests for other
\* queues arriving at any moment.
NextOtherStream ==
  \/ NextHappy
  \/ OtherStreamInit

SpecOtherStream == InitRecover /\ [][NextOtherStream]_vars

\* The same, followed by what the stream request does after initRedis: it
\* runs executeQueue on the queue object it loaded before the recovery.  After
\* the restart every invocation succeeds and the only endpoint called is
\* resume, on the queue that the recovery has left paused.
NextResume ==
  \/ ~recovery.ran /\ pc \notin RecoveryPcs /\ Next
  \/ Crash
  \/ RecoverLoad
  \/ RecoverBegin
  \/ RecoverTask
  \/ RecoverEnd
  \/ recovery.ran /\ pc \notin (RecoveryPcs \ {"recovered"}) /\ NextHappy
  \/ recovery.ran /\ pc = "recovered" /\ store.status = "paused" /\ HandleResumeQueue

SpecResume == InitRecover /\ [][NextResume]_vars


\* ------------------------------------------------- create and get requests
\* handleCreateQueue on the body of the request: 400 and nothing stored, or
\* 201 with the queue saved to the store if it is available and to the
\* in-memory map otherwise.
HandleCreateQueue ==
  /\ http.body # None
  /\ http.status = 0
  /\ LET body == The(http.body) IN
       IF BadRequest(body)
       THEN /\ http' = [http EXCEPT !.status = 400]
            /\ UNCHANGED <<redis, queues>>
       ELSE /\ http' = [http EXCEPT !.status = 201,
                                    !.queue = Some(createQueue(body))]
            /\ redis' = IF isRedisConnected
                        THEN saveQueue(redis, createQueue(body)) ELSE redis
            /\ queues' = IF isRedisConnected THEN queues
                         ELSE queues \cup {QueueId}
  /\ UNCHANGED <<settings, starts, second, recovery, isRedisConnected, tasks, qstatus, metrics,
                 runningTasks, completedResults, isPaused, isStopped, pc,
                 readyTasks, di, snap, dk, atYield, inflight, timers,
                 activeSchedulers, store, obs, retryCalls>>

\* What handleGetQueue finds: the queue loaded from the store, else the object
\* of the in-memory map, which is the one handleCreateQueue has put there.
getQueue ==
  LET queue == IF isRedisConnected THEN loadQueue(redis, QueueId) ELSE None
  IN IF queue # None THEN queue
     ELSE IF QueueId \in queues THEN http.queue ELSE None

\* handleGetQueue
HandleGetQueue ==
  /\ http.status # 0
  /\ http.get = 0
  /\ http' = [http EXCEPT !.get = IF getQueue = None THEN 404 ELSE 200,
                          !.loaded = getQueue]
  /\ UNCHANGED <<settings, starts, second, recovery, redis, isRedisConnected, tasks, qstatus,
                 metrics, runningTasks, completedResults, isPaused, isStopped,
                 pc, readyTasks, di, snap, dk, atYield, inflight, timers,
                 activeSchedulers, queues, store, obs, retryCalls>>

\* The request bodies of POST /api/queue
MaxBodyTasks == 2

SeqsUpTo(S, n) == UNION {[1..k -> S] : k \in 0..n}

TaskInputs ==
  [agentId : {KnownAgent}, message : {"m"},
   priority : {None, Some(Num(0)), Some(Num(1)), Some([i |-> 1, f |-> 5]),
               Some(Num(PriorityLowest + 1))},
   estimatedComplexity : {None, Some("simple")}]

Bodies ==
  [name : {None, Some(""), Some("n")},
   description : {None, Some("d")},
   tasks : {None} \cup {Some(ts) : ts \in SeqsUpTo(TaskInputs, MaxBodyTasks)},
   settings : {None} \cup
     {Some(s) : s \in [maxConcurrency : {None, Some(Num(1))},
                       retryCount : {None, Some(Num(0)), Some(Num(1))},
                       retryDelay : {None}, timeoutPerTask : {None}]}]

\* A server with no queue that receives one POST /api/queue; no stream request
\* is made, so the scheduler variables keep their values.
InitCreate ==
  /\ settings = [maxConcurrency |-> 1, retryCount |-> 0]
  /\ isRedisConnected \in BOOLEAN
  /\ tasks = [t \in Tasks |-> NewTask(1, KnownAgent, 0)]
  /\ qstatus = "idle"
  /\ metrics = createInitialMetrics(NumTasks)
  /\ runningTasks = {}
  /\ completedResults = <<>>
  /\ isPaused = FALSE
  /\ isStopped = FALSE
  /\ pc = "init"
  /\ readyTasks = <<>>
  /\ di = 0
  /\ snap = <<>>
  /\ dk = 0
  /\ atYield = FALSE
  /\ inflight = [t \in Tasks |-> [live |-> 0, aborted |-> 0]]
  /\ timers = [t \in Tasks |-> 0]
  /\ activeSchedulers = {}
  /\ queues = {}
  /\ store = EmptyStore
  /\ obs = [started |-> [t \in Tasks |-> 0], retrying |-> [t \in Tasks |-> 0],
            completed |-> [t \in Tasks |-> 0], failed |-> [t \in Tasks |-> 0],
            open |-> [t \in Tasks |-> FALSE], lastPrio |-> 0,
            queueStarted |-> FALSE, queueEnd |-> "none", pauseDepth |-> 0,
            stream |-> NoEvent]
  /\ retryCalls = 0
  /\ recovery = NoRecovery
  /\ redis = EmptyRedis
  /\ second = NoSecond
  /\ starts = NoStarts
  /\ \E body \in Bodies : http = [NoRequest EXCEPT !.body = Some(body)]

NextCreate ==
  \/ HandleCreateQueue
  \/ HandleGetQueue

SpecCreate == InitCreate /\ [][NextCreate]_vars

\* ------------------------------------------------- a second stream request
\* handleQueueStream for a queue whose stream is already being served: the
\* queue is looked up, a new scheduler is created and put into activeSchedulers
\* under the same key, and its executeQueue writes the status running to the
\* store.  Without the store the queue object is the one the first scheduler
\* holds.
HandleQueueStreamAgain ==
  /\ QueueExists
  /\ QueueId \in activeSchedulers
  /\ second.pc = "none"
  /\ second' = [pc |-> "loop",
                tasks |-> IF isRedisConnected
                          THEN [t \in Tasks |-> store.tasks[t].status]
                          ELSE <<>>,
                runningTasks |-> {}]
  /\ store' = IF isRedisConnected THEN [store EXCEPT !.status = "running"]
              ELSE store
  /\ UNCHANGED <<settings, starts, recovery, redis, http, isRedisConnected, tasks,
                 qstatus, metrics, runningTasks, completedResults, isPaused, isStopped,
                 pc, readyTasks, di, snap, dk, atYield, inflight, timers,
                 activeSchedulers, queues, obs, retryCalls>>

\* queue.tasks of the queue object of the second scheduler
SecondTasks ==
  IF isRedisConnected
  THEN [t \in Tasks |-> [tasks[t] EXCEPT !.status = second.tasks[t]]]
  ELSE tasks

\* The dispatch loop of the second scheduler for its next ready task: agent
\* lookup and startTask, with the store writes that follow.
SecondDispatch ==
  /\ second.pc = "loop"
  /\ LET r == getReadyTasks(SecondTasks, second.runningTasks,
                            settings.maxConcurrency)
     IN /\ r # <<>>
        /\ LET t == r[1]
               known == tasks[t].agentId = KnownAgent
               status == IF known THEN "in_progress" ELSE "failed"
           IN /\ second' =
                   [second EXCEPT
                      !.runningTasks = IF known THEN @ \cup {t} ELSE @,
                      !.tasks = IF isRedisConnected
                                THEN [@ EXCEPT ![t] = status] ELSE @]
              /\ tasks' = IF isRedisConnected THEN tasks
                          ELSE [tasks EXCEPT
                                  ![t].status = status,
                                  ![t].error = IF known THEN @ ELSE "execution"]
              /\ store' =
                   IF isRedisConnected /\ known
                   THEN [store EXCEPT
                           !.tasks[t] = updateTask(@, [status |-> "in_progress",
                                                       startedAt |-> "now"]),
                           !.busy = @ \cup {tasks[t].agentId}]
                   ELSE store
  /\ UNCHANGED <<settings, starts, recovery, redis, http, isRedisConnected, qstatus,
                 metrics, runningTasks, completedResults, isPaused, isStopped,
                 pc, readyTasks, di, snap, dk, atYield, inflight, timers,
                 activeSchedulers, queues, obs, retryCalls>>

\* The undisturbed run of the first stream request with a second stream
\* request for the same queue.
NextStreams ==
  \/ NextHappy
  \/ HandleQueueStreamAgain
  \/ SecondDispatch

SpecStreams == Init /\ [][NextStreams]_vars

\* ---------------------------------------------- task updates on the key space
\* The partials that the callers of updateTask pass
Partials ==
  [status : {None, Some("completed")},
   startedAt : {None, Some(Num(0)), Some(Num(Now))},
   completedAt : {None, Some(Num(Now))},
   result : {None, Some([type |-> "success"])},
   error : {None},
   retryCount : {None, Some(Num(1))}]

EmptyPartial == [k \in UpdateKeys |-> None]

\* A call of RedisQueueStore.updateTask for a task of the queue
UpdateTask(taskId, updates) ==
  /\ taskId \in DOMAIN redis.task
  /\ redis' = updateTaskHash(redis, taskId, updates)
  /\ UNCHANGED <<settings, starts, second, recovery, http, isRedisConnected, tasks, qstatus,
                 metrics, runningTasks, completedResults, isPaused, isStopped,
                 pc, readyTasks, di, snap, dk, atYield, inflight, timers,
                 activeSchedulers, queues, store, obs, retryCalls>>

\* handleRetryTask on the key space: 404 if the queue or the task is not
\* found, else the reset is written with updateTask and the id is requeued.
RetryTaskRequest(taskId) ==
  /\ http.status # 0
  /\ retryCalls < MaxRetryCalls
  /\ retryCalls' = retryCalls + 1
  /\ LET queue == loadQueue(redis, QueueId) IN
       IF queue = None \/ \A i \in DOMAIN The(queue).tasks :
                            The(queue).tasks[i].id # taskId
       THEN /\ http' = [http EXCEPT !.retry = 404]
            /\ redis' = redis
       ELSE /\ http' = [http EXCEPT !.retry = 200]
            /\ redis' = requeueTask(updateTaskHash(redis, taskId, RetryUpdates),
                                    taskId)
  /\ UNCHANGED <<settings, starts, second, recovery, isRedisConnected, tasks, qstatus,
                 metrics, runningTasks, completedResults, isPaused, isStopped,
                 pc, readyTasks, di, snap, dk, atYield, inflight, timers,
                 activeSchedulers, queues, store, obs>>

\* One queue of two tasks is created in the store; then updateTask is called
\* with any partial and the retry endpoint with any task id.
SampleBody ==
  LET input == [agentId |-> KnownAgent, message |-> "m", priority |-> None,
                estimatedComplexity |-> None]
  IN [name |-> Some("n"), description |-> None,
      tasks |-> Some(<<input, input>>), settings |-> None]

TaskIds == DOMAIN The(SampleBody.tasks)

InitStore ==
  /\ InitCreate
  /\ isRedisConnected
  /\ http.body = Some(SampleBody)

NextStore ==
  \/ HandleCreateQueue
  \/ \E taskId \in TaskIds, updates \in Partials : UpdateTask(taskId, updates)
  \/ \E taskId \in TaskIds \cup {Len(The(SampleBody.tasks)) + 1} :
       RetryTaskRequest(taskId)

SpecStore == InitStore /\ [][NextStore]_vars

TypeOK ==
  /\ pc \in {"init", "start_io", "loop", "pause_wait", "resumed", "dispatch_io",
             "dispatch", "drain_io", "drain", "post_sleep", "post_drain",
             "final_io", "final", "done"} \cup RecoveryPcs
  /\ \A i \in DOMAIN completedResults : completedResults[i].res \in Results
  /\ runningTasks \subseteq Tasks
  /\ \A t \in Tasks : tasks[t].status \in
        {"pending", "in_progress", "completed", "failed", "retrying"}


\* ================================================================== claims
InProgress == {t \in Tasks : tasks[t].status = "in_progress"}
Terminals(t) == obs.completed[t] + obs.failed[t]
AllAgentsKnown == \A t \in Tasks : tasks[t].agentId = KnownAgent
Unfinished == {"pending", "queued", "in_progress", "retrying"}

\* C1: at every step the running-tasks map of the scheduler holds at most
\* settings.maxConcurrency entries.
C1_RunningWithinCap ==
  Cardinality(runningTasks) <= settings.maxConcurrency

\* the cap is binding: the map is full while a task is still waiting and the
\* loop is about to compute its next ready set
C1_Witness ==
  /\ pc = "loop"
  /\ Cardinality(runningTasks) = settings.maxConcurrency
  /\ \E t \in Tasks : tasks[t].status = "pending"

\* C2: at every instant the number of tasks whose status is in_progress is at
\* most settings.maxConcurrency.
C2_InProgressWithinCap ==
  Cardinality(InProgress) <= settings.maxConcurrency

\* C3: a task that was dispatched gets exactly one terminal task event: never
\* two, and one by the time the terminal queue event has been emitted.
C3_ExactlyOneTerminal ==
  /\ \A t \in Tasks : Terminals(t) <= 1
  /\ obs.queueEnd # "none" =>
       \A t \in Tasks : obs.started[t] > 0 => Terminals(t) = 1

\* C4: when every invocation succeeds and nothing pauses or stops the queue,
\* the terminal event is queue_completed, every task has had its
\* task_completed before it, the metrics count every task as completed and
\* none as failed, and no result is left in completedResults.
C4_HappyPathCompletes ==
  (obs.queueEnd # "none" /\ AllAgentsKnown) =>
     /\ obs.queueEnd = "queue_completed"
     /\ \A t \in Tasks : obs.completed[t] = 1
     /\ metrics.completedTasks = NumTasks
     /\ metrics.failedTasks = 0
     /\ completedResults = <<>>

\* C5: a queue whose status is completed has no task that is pending, queued,
\* in_progress or retrying, and its failedTasks is 0.
C5_CompletedMeansNoWorkLeft ==
  (qstatus = "completed" \/ obs.queueEnd = "queue_completed") =>
     /\ \A t \in Tasks : tasks[t].status \notin Unfinished
     /\ metrics.failedTasks = 0

\* C6: a queue in a terminal state (completed, failed, or stopped with
\* queue_failed) has no invocation in flight that is not aborted, an empty
\* running-tasks map, and only completed, failed or cancelled tasks.
C6_TerminalMeansQuiescent ==
  (qstatus \in {"completed", "failed"} \/ obs.queueEnd # "none") =>
     /\ runningTasks = {}
     /\ \A t \in Tasks : inflight[t].live = 0
     /\ \A t \in Tasks : tasks[t].status \in {"completed", "failed", "cancelled"}

Before(ts, t, u) ==
  \/ ts[t].priority < ts[u].priority
  \/ ts[t].priority = ts[u].priority /\ t < u

SelectionOK(ts, r) ==
  LET cand == {t \in Tasks : ts[t].status \in {"pending", "queued"}}
      sel  == Range(r)
  IN /\ sel \subseteq cand
     /\ \A t \in sel, u \in cand \ sel : Before(ts, t, u)
     /\ \A i, j \in DOMAIN r : i < j => Before(ts, r[i], r[j])

\* C8: at every dispatch decision (the step in which getReadyTasks returns a
\* non-empty ready set) no selected task has a greater priority value than a
\* pending task left out, and equal priorities go by insertion order.
C8_PrioritySelection ==
  [][(readyTasks = <<>> /\ readyTasks' # <<>>) => SelectionOK(tasks, readyTasks')]_vars

\* a decision has just preferred a task inserted later over a waiting task
\* inserted earlier, because of its priority
C8_Witness ==
  /\ pc \in {"dispatch", "dispatch_io"}
  /\ di = 1
  /\ \E t \in Range(readyTasks), u \in Tasks \ Range(readyTasks) :
       /\ tasks[u].status = "pending"
       /\ u < t
       /\ tasks[t].priority < tasks[u].priority

\* C9: with maxConcurrency = 1 a task_started is emitted only when no other
\* task is between its task_started and its terminal or retrying event, and
\* the priority values of the started tasks never decrease.
C9_SerialDispatch ==
  [][settings.maxConcurrency = 1 =>
       \A t \in Tasks :
         obs'.started[t] > obs.started[t] =>
           /\ \A u \in Tasks \ {t} : ~obs.open[u]
           /\ obs.lastPrio <= tasks[t].priority]_vars

\* C10: while the scheduler is paused (pause() called, resume() not yet) no
\* task moves to in_progress and no task_started is emitted.
C10_NoDispatchWhilePaused ==
  [][(isPaused /\ isPaused') =>
       \A t \in Tasks :
         /\ obs'.started[t] = obs.started[t]
         /\ ~(tasks[t].status # "in_progress" /\ tasks'[t].status = "in_progress")]_vars

\* C11: after a retryable failure with retries left, and unless the queue is
\* stopped, the task is dispatched again (task_started, task_retrying,
\* task_started, ...), whatever the retry delay: a run that has ended without
\* a stop has followed every task_retrying of a task by a task_started.
C11_RetryRedispatched ==
  (pc = "done" /\ ~isStopped) =>
     \A t \in Tasks : obs.retrying[t] > 0 => obs.started[t] > obs.retrying[t]

\* C12: a task whose every attempt fails with a retryable error gets exactly
\* maxRetries task_retrying events, numbered 1..maxRetries in order, and then
\* one task_failed; it is never retried more than maxRetries times.
C12_ExactlyMaxRetries ==
  /\ \A t \in Tasks :
       /\ obs.retrying[t] <= settings.retryCount
       /\ obs.retrying[t] = tasks[t].retryCount
  /\ pc = "done" =>
       \A t \in Tasks :
         obs.started[t] > 0 =>
           /\ obs.retrying[t] = settings.retryCount
           /\ obs.failed[t] = 1

\* C13: once the scheduler is stopped, a task that is in its retry delay
\* (status retrying, timer pending) is never returned to pending and its id is
\* never pushed back onto the pending list; it stays retrying until it is
\* marked failed with error type abort.
C13_StopCancelsRetry ==
  [][\A t \in Tasks :
       (isStopped /\ tasks[t].status = "retrying" /\ timers[t] > 0) =>
          /\ tasks'[t].status = "retrying"
               \/ (tasks'[t].status = "failed" /\ tasks'[t].error = "abort")
          /\ store'.pending # <<t>> \o store.pending]_vars

\* C14: after stop(), at whatever point of the loop it arrives: no invocation
\* of the queue is left running un-aborted, no task is dispatched any more
\* (no task moves to in_progress, no task_started), and the run ends with
\* queue_failed and the queue status failed, in memory and in the store.
C14_StopSemantics ==
  /\ [](isStopped => \A t \in Tasks : inflight[t].live = 0)
  /\ [][isStopped =>
          \A t \in Tasks :
            /\ obs'.started[t] = obs.started[t]
            /\ ~(tasks[t].status # "in_progress"
                  /\ tasks'[t].status = "in_progress")]_vars
  /\ []((isStopped /\ pc = "done") =>
          /\ obs.queueEnd = "queue_failed"
          /\ qstatus = "failed"
          /\ isRedisConnected => store.status = "failed")

\* C15: the events of one run start with queue_started before any task event
\* or other queue event; queue_paused and queue_resumed alternate, a
\* queue_paused being left without its queue_resumed only when the queue is
\* stopped; the run ends with one terminal queue event, after which nothing
\* more is emitted.
C15_QueueEventOrder ==
  /\ [](~obs.queueStarted =>
          /\ \A t \in Tasks :
               obs.started[t] + obs.retrying[t] + Terminals(t) = 0
          /\ obs.pauseDepth = 0
          /\ obs.queueEnd = "none")
  /\ [](obs.pauseDepth \in {0, 1})
  /\ []((obs.queueEnd # "none" /\ obs.pauseDepth = 1) => isStopped)
  /\ [](pc = "done" => obs.queueEnd # "none")
  /\ [][obs.queueEnd # "none" => obs' = obs]_vars

\* a pause taken in the middle of the run has just been closed by its
\* queue_resumed
C15_Witness ==
  /\ pc = "resumed"
  /\ obs.pauseDepth = 0
  /\ \E t \in Tasks : obs.started[t] > 0

\* C16 as stated: the events of a task come in program order, task_started
\* before any task_retrying before the terminal event; no task_retrying,
\* task_completed or task_failed is emitted for a task that has had no
\* task_started.
C16_StartedBeforeAnyOther ==
  \A t \in Tasks :
    /\ obs.retrying[t] + Terminals(t) > 0 => obs.started[t] > 0
    /\ obs.retrying[t] + Terminals(t) <= obs.started[t]

\* C16 amended: every task_retrying and task_completed, and every task_failed
\* of a task whose agent is known, closes a task_started of its own that came
\* before it; a task whose agent is unknown gets its task_failed at dispatch,
\* with no task_started, and no other task event.
C16_TaskEventOrder ==
  \A t \in Tasks :
    IF tasks[t].agentId = KnownAgent
    THEN obs.retrying[t] + Terminals(t) <= obs.started[t]
    ELSE /\ obs.started[t] = 0
         /\ obs.retrying[t] = 0
         /\ obs.completed[t] = 0

\* both cases at once: one task has gone through task_started, task_retrying,
\* task_started and its terminal event, another has failed on an unknown agent
C16_Witness ==
  \E t, u \in Tasks :
    /\ tasks[t].agentId = KnownAgent
    /\ obs.started[t] = 2 /\ obs.retrying[t] = 1 /\ Terminals(t) = 1
    /\ tasks[u].agentId # KnownAgent
    /\ obs.failed[u] = 1

\* the result that the settling of t's invocation has just put in the map
SettledResult(t) == (CHOOSE e \in Range(completedResults') : e.id = t).res

\* C17: a non-2xx answer of the agent is classified for good by the invoker:
\* 401 and 403 give an execution error that is not retryable, 5xx gives a
\* network error that is retryable, every other non-2xx status gives an
\* execution error that is not retryable.
C17_NonOkClassification ==
  [][\A t \in Tasks, b \in AgentBehaviours :
       (b.kind = "http" /\ b.status # 200
          /\ TaskSettle(t, executeTaskAsync(b))) =>
         IF b.status \in {401, 403}
         THEN ErrorType(SettledResult(t)) = "execution"
              /\ ~Retryable(SettledResult(t))
         ELSE IF b.status >= 500
         THEN ErrorType(SettledResult(t)) = "network"
              /\ Retryable(SettledResult(t))
         ELSE ErrorType(SettledResult(t)) = "execution"
              /\ ~Retryable(SettledResult(t))]_vars

\* C18: when the timeoutPerTask deadline of a dispatch fires, or no frame
\* arrives within the per-read deadline, the dispatch resolves to a timeout
\* error that is retryable (so that the task is retried while it has retries
\* left).
C18_TimeoutRetryable ==
  [][\A t \in Tasks, b \in AgentBehaviours :
       (b.kind \in {"deadline", "read_timeout"}
          /\ TaskSettle(t, executeTaskAsync(b))) =>
         /\ ErrorType(SettledResult(t)) = "timeout"
         /\ Retryable(SettledResult(t))]_vars

\* the ids of the tasks of the store that are not terminal, in insertion order
NonTerminalIds(st) ==
  SelectSeq(TaskOrder,
            LAMBDA t : st.tasks[t].status \notin {"completed", "failed",
                                                   "cancelled"})

\* C19: after recovery a queue whose persisted status was running or paused
\* has status paused, no task in_progress or retrying (the tasks that were are
\* pending), a pending list that is exactly the ids of its non-terminal tasks
\* in insertion order without duplicates, and the busy-agents set is empty.
C19_RecoveryPostcondition ==
  (pc = "recovered" /\ recovery.interrupted # {}) =>
     /\ store.status = "paused"
     /\ \A t \in Tasks : store.tasks[t].status \notin {"in_progress", "retrying"}
     /\ \A t \in recovery.reset : store.tasks[t].status = "pending"
     /\ store.pending = NonTerminalIds(store)
     /\ store.busy = {}

\* a recovery that had a task to set back and another one that was waiting,
\* with an agent left busy by the crash
C19_Witness ==
  /\ pc = "recovered"
  /\ recovery.interrupted # {}
  /\ \E t \in recovery.reset, u \in Tasks \ recovery.reset :
       store.tasks[u].status = "pending"
  /\ Len(store.pending) = 2

\* C20: resetInterruptedQueue clears startedAt of every task it sets back from
\* in_progress or retrying to pending: loaded from the store afterwards, such a
\* task has no startedAt.
C20_ResetClearsStartedAt ==
  pc = "recovered" => \A t \in recovery.reset : ~store.tasks[t].startedAt

\* C21: resetInterruptedQueue is idempotent: from every state of the store,
\* applying it twice leaves the queue status, the task records, the pending
\* list and the busy-agents set as applying it once does; in particular a
\* second application changes nothing in a store that recovery has just reset.
C21_ResetIdempotent ==
  /\ resetInterruptedQueue(resetInterruptedQueue(store))
       = resetInterruptedQueue(store)
  /\ (pc = "recovered" /\ recovery.interrupted # {}) =>
       resetInterruptedQueue(store) = store

\* recovery has run on a store in which it had a task to set back, and a
\* second application finds nothing to change
C21_Witness ==
  /\ pc = "recovered"
  /\ recovery.reset # {}
  /\ store.pending # <<>>
  /\ resetInterruptedQueue(store) = store

\* C22: once crash recovery has left the queue paused with pending tasks and
\* the resume endpoint has been called, the queue is driven to completed by
\* agents that succeed: when its run has ended, the store has the queue
\* completed and every task of the pending list completed.
C22_ResumeCompletes ==
  (pc = "done" /\ recovery.interrupted # {} /\ recovery.resumed /\ AllAgentsKnown) =>
     /\ store.status = "completed"
     /\ \A t \in Range(store.pending) : store.tasks[t].status = "completed"

\* C23: the queue that loadQueue returns after saveQueue(q) equals q: same id,
\* name, description, status, settings and timestamps, and the same tasks in
\* insertion order with all their fields; the metrics are left out of the
\* comparison.
C23_SaveLoadRoundTrip ==
  (http.status = 201 /\ http.get = 200) =>
     [The(http.loaded) EXCEPT !.metrics = <<>>]
       = [The(http.queue) EXCEPT !.metrics = <<>>]

\* C24: updateTask changes only the fields that its partial supplies: every
\* other field of the task, every other task, the queue hash, the lists and
\* the index stay as they are; with an empty partial the store is unchanged.
C24_UpdateTaskFrame ==
  \A taskId \in TaskIds \cup {Len(The(SampleBody.tasks)) + 1},
     updates \in Partials :
    LET after == updateTaskHash(redis, taskId, updates) IN
    /\ after.queue = redis.queue
    /\ after.tasks = redis.tasks
    /\ after.pending = redis.pending
    /\ after.list = redis.list
    /\ \A x \in DOMAIN redis.task :
         /\ x \in DOMAIN after.task
         /\ x # taskId => after.task[x] = redis.task[x]
    /\ taskId \in DOMAIN redis.task =>
         \A k \in DOMAIN redis.task[taskId] :
           (k \notin UpdateKeys \/ updates[k] = None) =>
              after.task[taskId][k] = redis.task[taskId][k]
    /\ updates = EmptyPartial => after = redis

\* updateTask has written a result and a status to the first task of a queue
\* and has left the second task as it was created
C24_Witness ==
  /\ http.status = 201
  /\ redis.task[1].status = "completed"
  /\ redis.task[1].result # None
  /\ redis.task[1].metadata # None
  /\ redis.task[2] = saveTask(EmptyRedis, The(http.queue).tasks[2]).task[2]

\* C25: after the retry endpoint has answered 200 for a task, the task as
\* loaded from the store has status pending, retryCount 0 and no result,
\* error, startedAt or completedAt, and its id is on the pending list; for an
\* unknown task id the answer is 404 and the store is unchanged.
C25_RetryResetsTask ==
  [][\A taskId \in TaskIds \cup {Len(The(SampleBody.tasks)) + 1} :
       RetryTaskRequest(taskId) =>
         IF taskId \in DOMAIN redis.task
         THEN /\ http'.retry = 200
              /\ LET task == The(loadTask(redis', taskId)) IN
                   /\ task.status = "pending"
                   /\ task.retryCount = Num(0)
                   /\ task.result = None
                   /\ task.error = None
                   /\ task.startedAt = None
                   /\ task.completedAt = None
              /\ taskId \in Range(redis'.pending)
         ELSE /\ http'.retry = 404
              /\ redis' = redis]_vars

\* C26: a DELETE without force=true on a queue whose status is running is
\* answered 400 and leaves the queue, its tasks, the pending list and the
\* active scheduler as they are; a DELETE on an unknown id is answered 404 and
\* changes nothing either.
C26_DeleteRefused ==
  [][\A force \in BOOLEAN :
       HandleDeleteQueue(force) =>
         /\ ~QueueExists => deleteResponse(force) = 404 /\ UNCHANGED vars
         /\ (QueueExists /\ LoadedStatus = "running" /\ ~force) =>
              /\ deleteResponse(force) = 400
              /\ UNCHANGED <<store, queues, tasks, qstatus, activeSchedulers,
                             isStopped, isPaused, runningTasks, inflight>>]_vars

\* a running queue with a registered scheduler and a task in flight: a DELETE
\* without force is refused here, and the refused request leaves this very
\* state behind
C26_Witness ==
  /\ QueueExists
  /\ LoadedStatus = "running"
  /\ deleteResponse(FALSE) = 400
  /\ QueueId \in activeSchedulers
  /\ runningTasks # {}
  /\ ENABLED HandleDeleteQueue(FALSE)

\* Nothing of the queue is stored
Deleted ==
  IF isRedisConnected THEN store = DeletedStore(store) ELSE QueueId \notin queues

\* C27: once a DELETE has succeeded the queue stays deleted: nothing of it is
\* stored again, neither by the stopped scheduler, nor by its stream handler,
\* nor by a retry timer.
C27_StaysDeleted ==
  [][Deleted => Deleted']_vars

\* C28: at most one scheduler drives the queue at a time: while the executeQueue
\* of one stream request is running, no scheduler of a second stream request
\* for the queue has dispatched a task of it.
C28_SingleScheduler ==
  pc \notin {"init", "done"} => second.runningTasks = {}

\* The queue status changes that the claim allows
AllowedStatusChanges ==
  {<<"idle", "running">>, <<"running", "paused">>, <<"paused", "running">>,
   <<"running", "completed">>, <<"running", "failed">>}

\* C29: the status of a queue changes only from idle to running, between
\* running and paused, and from running to completed or failed; it never
\* leaves completed or failed, and an idle queue never becomes paused.
C29_StatusTransitions ==
  [][(QueueExists /\ QueueExists' /\ LoadedStatus' # LoadedStatus) =>
       <<LoadedStatus, LoadedStatus'>> \in AllowedStatusChanges]_vars

\* The queue that the server has stored after the create request
StoredQueueOK(body, queue) ==
  /\ queue.status = "idle"
  /\ Len(queue.tasks) = Len(The(body.tasks))
  /\ \A i \in DOMAIN queue.tasks :
       /\ queue.tasks[i].status = "pending"
       /\ queue.tasks[i].retryCount = Num(0)
       /\ queue.tasks[i].maxRetries = queue.settings.retryCount
       /\ queue.tasks[i].priority.f = 0
       /\ queue.tasks[i].priority.i \in 1..PriorityLowest
  /\ \A k \in DOMAIN DefaultSettings :
       queue.settings[k] = OrElse(SettingOf(body, k), DefaultSettings[k])

\* C30: a create request with no name or no task is answered 400 and nothing
\* is stored; any other is answered 201 and the stored queue is idle, its
\* tasks are pending with retryCount 0, maxRetries equal to
\* settings.retryCount and a priority from 1 to 10, and the settings that the
\* request leaves out have their default values.
C30_CreateQueue ==
  http.status # 0 =>
    IF BadRequest(The(http.body))
    THEN http.status = 400 /\ redis = EmptyRedis /\ queues = {}
    ELSE /\ http.status = 201
         /\ getQueue # None
         /\ StoredQueueOK(The(http.body), The(getQueue))

\* C31: with the store connected, while the scheduler runs the queue every
\* task that is in_progress has its agentId in the busy-agents set, and once
\* the terminal queue event has been emitted no agent of the queue is left in
\* the set.
C31_BusyAgents ==
  isRedisConnected =>
    /\ pc \notin {"init", "done"} =>
         \A t \in Tasks : tasks[t].status = "in_progress" =>
                             tasks[t].agentId \in store.busy
    /\ obs.queueEnd # "none" => store.busy = {}

\* C32: while the store is connected, the events published on the channel of
\* the queue are the events written to its stream, in the same order; so after
\* every step the last event published equals the last event written to the
\* stream.
C32_StreamPublished ==
  isRedisConnected => store.channel = obs.stream

\* C33: when a store operation fails during the scheduler's housekeeping, the
\* queue ends with persisted and in-memory status failed and a queue_failed
\* event is written to the stream; its persisted status is not left running.
C33_StoreFailureFailsQueue ==
  [][StoreThrows => /\ store'.status = "failed"
                    /\ qstatus' = "failed"
                    /\ obs'.queueEnd = "queue_failed"]_vars

\* C34: the same calls and the same agent outcomes give the same answers with
\* the store connected and in the in-memory fallback.  For GET busy-agents the
\* fallback answer does not depend on the run, so the claim says that at every
\* point of every run the answer of the connected system is the answer of the
\* fallback.
C34_SameBusyAnswer ==
  handleGetBusyAgents(isRedisConnected) = handleGetBusyAgents(FALSE)

\* C35: while the store is connected, the persisted pending list of the queue
\* holds each id at most once, and exactly the ids of the tasks that await
\* dispatch: dispatching a task removes its id, and the return of a retried
\* task to pending pushes it back once.
C35_PendingList ==
  isRedisConnected /\ store.exists =>
    /\ \A i, j \in DOMAIN store.pending :
         store.pending[i] = store.pending[j] => i = j
    /\ Range(store.pending) =
         {t \in Tasks : tasks[t].status \in {"pending", "queued"}}

\* C36: executeQueue ends with its terminal queue event, and its main loop is
\* not left while a task of the queue is pending, queued, in_progress or
\* retrying, unless stop was issued: every step that takes the run out of the
\* main loop finds the scheduler stopped or no work remaining.
AfterMainLoop == {"post_sleep", "post_drain", "final_io", "final", "done"}

C36_LoopExitsOnlyWhenDone ==
  [][(pc \notin AfterMainLoop /\ pc' \in AfterMainLoop) =>
        isStopped' \/ ~hasWorkRemaining(tasks')]_vars

\* C37: a selected task whose agent the lookup does not resolve is never
\* dispatched (no invocation, agent not marked busy, never in_progress, never
\* retried); the step that fails it sets status failed with an execution
\* error, emits task_failed and writes the failed status to the store; and the
\* run then ends with queue_failed.
UnknownAgent(t) == tasks[t].agentId # KnownAgent

C37_UnknownAgentFails ==
  /\ [](\A t \in Tasks :
          UnknownAgent(t) =>
            /\ tasks[t].status \notin {"in_progress", "retrying"}
            /\ inflight[t].live = 0
            /\ obs.started[t] = 0 /\ obs.retrying[t] = 0
            /\ tasks[t].agentId \notin store.busy)
  /\ [][\A t \in Tasks :
          (UnknownAgent(t) /\ tasks[t].status # "failed"
                           /\ tasks'[t].status = "failed") =>
             /\ tasks'[t].error = "execution"
             /\ obs'.failed[t] = obs.failed[t] + 1
             /\ isRedisConnected => store'.tasks[t].status = "failed"]_vars
  /\ []((pc = "done" /\ \E t \in Tasks :
                          UnknownAgent(t) /\ tasks[t].status = "failed") =>
          obs.queueEnd = "queue_failed")

\* C38: of two concurrent start requests for the same queue that is not
\* running, at most one is answered 200, with the store connected as well.
C38_OneStartWins ==
  Cardinality({r \in StartRequests : starts[r].response = 200}) <= 1

\* C39: the initialisation of a scheduler for another queue leaves the
\* persisted state of a queue that an active scheduler is driving as it was:
\* the status stays running, in_progress tasks stay in_progress, and the
\* busy-agents entries of its running tasks stay.
C39_OtherInitLeavesQueue ==
  [][OtherStreamInit =>
       /\ store.status = "running" => store'.status = "running"
       /\ \A t \in Tasks :
            store.tasks[t].status = "in_progress" =>
               store'.tasks[t].status = "in_progress"
       /\ \A t \in runningTasks :
            tasks[t].agentId \in store.busy => tasks[t].agentId \in store'.busy]_vars

\* C40: while the store is connected, the status of a task as loaded from the
\* store is the status the scheduler holds in memory: for the task of the
\* event the stream has just received, and for every task once the run has
\* ended with its terminal queue event.
TaskEvents == {"task_started", "task_retrying", "task_completed", "task_failed"}

C40_StoreAuthoritative ==
  (isRedisConnected /\ store.exists) =>
    /\ (atYield /\ obs.stream[1] \in TaskEvents) =>
          store.tasks[obs.stream[2]].status = tasks[obs.stream[2]].status
    /\ (pc = "done" /\ obs.queueEnd # "none") =>
          \A t \in Tasks : store.tasks[t].status = tasks[t].status

====
